---- MODULE Spec2Model ----
(***************************************************************************)
(* The YOLO tracking server of src/python/yolo_tracker.py: the tracking    *)
(* state (tracked_object), the shared model with its lock, the target      *)
(* selection policies (find_face, find_tracked_object) and the HTTP        *)
(* handlers of TrackingHandler, served by a plain HTTPServer.              *)
(*                                                                         *)
(* Strings are sequences of one-character strings, so that lower(),        *)
(* strip() and the substring test are computed.  Areas are fixed-point     *)
(* with 4 decimals (round(box_area, 4)), confidences with 3 decimals.      *)
(***************************************************************************)
EXTENDS Integers, Sequences, FiniteSets, TLC

(***************************************************************************)
(* Bounds of the model.                                                    *)
(***************************************************************************)
\* connections that may wait in the listen backlog while one is handled
MaxPending == 1
\* boxes in one inference result
MaxDets == 2
\* the longest detection list handed to a selection policy on its own
MaxLen == 3
\* the longest detection list handed to the Object policy on its own
MaxObjLen == 2

(***************************************************************************)
(* Strings.                                                                *)
(***************************************************************************)
UpperToLower ==
  ("A" :> "a") @@ ("B" :> "b") @@ ("C" :> "c") @@ ("D" :> "d") @@ ("E" :> "e") @@
  ("F" :> "f") @@ ("G" :> "g") @@ ("H" :> "h") @@ ("I" :> "i") @@ ("J" :> "j") @@
  ("K" :> "k") @@ ("L" :> "l") @@ ("M" :> "m") @@ ("N" :> "n") @@ ("O" :> "o") @@
  ("P" :> "p") @@ ("Q" :> "q") @@ ("R" :> "r") @@ ("S" :> "s") @@ ("T" :> "t") @@
  ("U" :> "u") @@ ("V" :> "v") @@ ("W" :> "w") @@ ("X" :> "x") @@ ("Y" :> "y") @@
  ("Z" :> "z")

Whitespace == {" ", "\t", "\n", "\r"}

\* str.lower()
Lower(s) ==
  [i \in 1..Len(s) |-> IF s[i] \in DOMAIN UpperToLower THEN UpperToLower[s[i]] ELSE s[i]]

RECURSIVE LStrip(_)
LStrip(s) ==
  IF s # <<>> /\ Head(s) \in Whitespace THEN LStrip(Tail(s)) ELSE s

RECURSIVE RStrip(_)
RStrip(s) ==
  IF s # <<>> /\ s[Len(s)] \in Whitespace THEN RStrip(SubSeq(s, 1, Len(s) - 1)) ELSE s

\* str.strip()
Strip(s) == RStrip(LStrip(s))

\* Python's  a in b  for two strings
IsSubstring(a, b) ==
  \E i \in 1..(Len(b) + 1) : i + Len(a) - 1 <= Len(b) /\ SubSeq(b, i, i + Len(a) - 1) = a

\* Python's  x in lst  for a list
InList(x, lst) == \E i \in 1..Len(lst) : lst[i] = x

\* str.split(',') : the parts between the commas, in order
RECURSIVE SplitComma(_, _)
SplitComma(s, part) ==
  IF s = <<>> THEN <<part>>
  ELSE IF Head(s) = "," THEN <<part>> \o SplitComma(Tail(s), <<>>)
  ELSE SplitComma(Tail(s), Append(part, Head(s)))

(***************************************************************************)
(* JSON values as they reach the handler: null (also a missing key, which  *)
(* dict.get turns into None), a string, or another scalar (a number).      *)
(***************************************************************************)
Null == [t |-> "null", s |-> <<>>, n |-> 0]
JStr(s) == [t |-> "str", s |-> s, n |-> 0]
JNum(n) == [t |-> "num", s |-> <<>>, n |-> n]

\* Python truthiness:  if v / not v / v or w
Truthy(v) ==
  CASE v.t = "null" -> FALSE
    [] v.t = "str" -> Len(v.s) > 0
    [] OTHER -> v.n # 0

\* Python's  a or b
Or(a, b) == IF Truthy(a) THEN a ELSE b

(***************************************************************************)
(* The class vocabulary and the alias table.                               *)
(***************************************************************************)
COCO_CLASSES ==
  <<
    <<"p","e","r","s","o","n">>,
    <<"b","i","c","y","c","l","e">>,
    <<"c","a","r">>,
    <<"m","o","t","o","r","c","y","c","l","e">>,
    <<"a","i","r","p","l","a","n","e">>,
    <<"b","u","s">>,
    <<"t","r","a","i","n">>,
    <<"t","r","u","c","k">>,
    <<"b","o","a","t">>,
    <<"t","r","a","f","f","i","c"," ","l","i","g","h","t">>,
    <<"f","i","r","e"," ","h","y","d","r","a","n","t">>,
    <<"s","t","o","p"," ","s","i","g","n">>,
    <<"p","a","r","k","i","n","g"," ","m","e","t","e","r">>,
    <<"b","e","n","c","h">>,
    <<"b","i","r","d">>,
    <<"c","a","t">>,
    <<"d","o","g">>,
    <<"h","o","r","s","e">>,
    <<"s","h","e","e","p">>,
    <<"c","o","w">>,
    <<"e","l","e","p","h","a","n","t">>,
    <<"b","e","a","r">>,
    <<"z","e","b","r","a">>,
    <<"g","i","r","a","f","f","e">>,
    <<"b","a","c","k","p","a","c","k">>,
    <<"u","m","b","r","e","l","l","a">>,
    <<"h","a","n","d","b","a","g">>,
    <<"t","i","e">>,
    <<"s","u","i","t","c","a","s","e">>,
    <<"f","r","i","s","b","e","e">>,
    <<"s","k","i","s">>,
    <<"s","n","o","w","b","o","a","r","d">>,
    <<"s","p","o","r","t","s"," ","b","a","l","l">>,
    <<"k","i","t","e">>,
    <<"b","a","s","e","b","a","l","l"," ","b","a","t">>,
    <<"b","a","s","e","b","a","l","l"," ","g","l","o","v","e">>,
    <<"s","k","a","t","e","b","o","a","r","d">>,
    <<"s","u","r","f","b","o","a","r","d">>,
    <<"t","e","n","n","i","s"," ","r","a","c","k","e","t">>,
    <<"b","o","t","t","l","e">>,
    <<"w","i","n","e"," ","g","l","a","s","s">>,
    <<"c","u","p">>,
    <<"f","o","r","k">>,
    <<"k","n","i","f","e">>,
    <<"s","p","o","o","n">>,
    <<"b","o","w","l">>,
    <<"b","a","n","a","n","a">>,
    <<"a","p","p","l","e">>,
    <<"s","a","n","d","w","i","c","h">>,
    <<"o","r","a","n","g","e">>,
    <<"b","r","o","c","c","o","l","i">>,
    <<"c","a","r","r","o","t">>,
    <<"h","o","t"," ","d","o","g">>,
    <<"p","i","z","z","a">>,
    <<"d","o","n","u","t">>,
    <<"c","a","k","e">>,
    <<"c","h","a","i","r">>,
    <<"c","o","u","c","h">>,
    <<"p","o","t","t","e","d"," ","p","l","a","n","t">>,
    <<"b","e","d">>,
    <<"d","i","n","i","n","g"," ","t","a","b","l","e">>,
    <<"t","o","i","l","e","t">>,
    <<"t","v">>,
    <<"l","a","p","t","o","p">>,
    <<"m","o","u","s","e">>,
    <<"r","e","m","o","t","e">>,
    <<"k","e","y","b","o","a","r","d">>,
    <<"c","e","l","l"," ","p","h","o","n","e">>,
    <<"m","i","c","r","o","w","a","v","e">>,
    <<"o","v","e","n">>,
    <<"t","o","a","s","t","e","r">>,
    <<"s","i","n","k">>,
    <<"r","e","f","r","i","g","e","r","a","t","o","r">>,
    <<"b","o","o","k">>,
    <<"c","l","o","c","k">>,
    <<"v","a","s","e">>,
    <<"s","c","i","s","s","o","r","s">>,
    <<"t","e","d","d","y"," ","b","e","a","r">>,
    <<"h","a","i","r"," ","d","r","i","e","r">>,
    <<"t","o","o","t","h","b","r","u","s","h">>
  >>

aliases ==
  <<
    << <<"p","h","o","n","e">>, << <<"c","e","l","l"," ","p","h","o","n","e">> >> >>,
    << <<"c","e","l","l","p","h","o","n","e">>, << <<"c","e","l","l"," ","p","h","o","n","e">> >> >>,
    << <<"m","o","b","i","l","e">>, << <<"c","e","l","l"," ","p","h","o","n","e">> >> >>,
    << <<"s","m","a","r","t","p","h","o","n","e">>, << <<"c","e","l","l"," ","p","h","o","n","e">> >> >>,
    << <<"i","p","h","o","n","e">>, << <<"c","e","l","l"," ","p","h","o","n","e">> >> >>,
    << <<"a","n","d","r","o","i","d">>, << <<"c","e","l","l"," ","p","h","o","n","e">> >> >>,
    << <<"r","e","m","o","t","e">>, << <<"r","e","m","o","t","e">> >> >>,
    << <<"c","o","n","t","r","o","l","l","e","r">>, << <<"r","e","m","o","t","e">> >> >>,
    << <<"g","a","m","e","p","a","d">>, << <<"r","e","m","o","t","e">> >> >>,
    << <<"j","o","y","s","t","i","c","k">>, << <<"r","e","m","o","t","e">> >> >>,
    << <<"g","a","m","e"," ","c","o","n","t","r","o","l","l","e","r">>, << <<"r","e","m","o","t","e">> >> >>,
    << <<"x","b","o","x"," ","c","o","n","t","r","o","l","l","e","r">>, << <<"r","e","m","o","t","e">> >> >>,
    << <<"p","l","a","y","s","t","a","t","i","o","n"," ","c","o","n","t","r","o","l","l","e","r">>, << <<"r","e","m","o","t","e">> >> >>,
    << <<"t","v">>, << <<"t","v">> >> >>,
    << <<"t","e","l","e","v","i","s","i","o","n">>, << <<"t","v">> >> >>,
    << <<"m","o","n","i","t","o","r">>, << <<"t","v">> >> >>,
    << <<"s","c","r","e","e","n">>, << <<"t","v">>, <<"l","a","p","t","o","p">> >> >>,
    << <<"l","a","p","t","o","p">>, << <<"l","a","p","t","o","p">> >> >>,
    << <<"c","o","m","p","u","t","e","r">>, << <<"l","a","p","t","o","p">> >> >>,
    << <<"n","o","t","e","b","o","o","k">>, << <<"l","a","p","t","o","p">> >> >>,
    << <<"m","a","c","b","o","o","k">>, << <<"l","a","p","t","o","p">> >> >>,
    << <<"k","e","y","b","o","a","r","d">>, << <<"k","e","y","b","o","a","r","d">> >> >>,
    << <<"m","o","u","s","e">>, << <<"m","o","u","s","e">> >> >>,
    << <<"c","u","p">>, << <<"c","u","p">> >> >>,
    << <<"m","u","g">>, << <<"c","u","p">> >> >>,
    << <<"g","l","a","s","s">>, << <<"c","u","p">>, <<"w","i","n","e"," ","g","l","a","s","s">> >> >>,
    << <<"b","o","t","t","l","e">>, << <<"b","o","t","t","l","e">> >> >>,
    << <<"w","a","t","e","r"," ","b","o","t","t","l","e">>, << <<"b","o","t","t","l","e">> >> >>,
    << <<"w","i","n","e"," ","g","l","a","s","s">>, << <<"w","i","n","e"," ","g","l","a","s","s">> >> >>,
    << <<"d","r","i","n","k">>, << <<"c","u","p">>, <<"b","o","t","t","l","e">>, <<"w","i","n","e"," ","g","l","a","s","s">> >> >>,
    << <<"f","a","c","e">>, << <<"p","e","r","s","o","n">> >> >>,
    << <<"h","e","a","d">>, << <<"p","e","r","s","o","n">> >> >>,
    << <<"m","e">>, << <<"p","e","r","s","o","n">> >> >>,
    << <<"m","y","s","e","l","f">>, << <<"p","e","r","s","o","n">> >> >>,
    << <<"u","s","e","r">>, << <<"p","e","r","s","o","n">> >> >>,
    << <<"p","e","r","s","o","n">>, << <<"p","e","r","s","o","n">> >> >>,
    << <<"h","u","m","a","n">>, << <<"p","e","r","s","o","n">> >> >>,
    << <<"m","a","n">>, << <<"p","e","r","s","o","n">> >> >>,
    << <<"w","o","m","a","n">>, << <<"p","e","r","s","o","n">> >> >>,
    << <<"g","u","y">>, << <<"p","e","r","s","o","n">> >> >>,
    << <<"g","i","r","l">>, << <<"p","e","r","s","o","n">> >> >>,
    << <<"c","h","a","i","r">>, << <<"c","h","a","i","r">> >> >>,
    << <<"s","e","a","t">>, << <<"c","h","a","i","r">> >> >>,
    << <<"c","o","u","c","h">>, << <<"c","o","u","c","h">> >> >>,
    << <<"s","o","f","a">>, << <<"c","o","u","c","h">> >> >>,
    << <<"b","e","d">>, << <<"b","e","d">> >> >>,
    << <<"t","a","b","l","e">>, << <<"d","i","n","i","n","g"," ","t","a","b","l","e">> >> >>,
    << <<"d","e","s","k">>, << <<"d","i","n","i","n","g"," ","t","a","b","l","e">> >> >>,
    << <<"a","p","p","l","e">>, << <<"a","p","p","l","e">> >> >>,
    << <<"b","a","n","a","n","a">>, << <<"b","a","n","a","n","a">> >> >>,
    << <<"o","r","a","n","g","e">>, << <<"o","r","a","n","g","e">> >> >>,
    << <<"p","i","z","z","a">>, << <<"p","i","z","z","a">> >> >>,
    << <<"d","o","n","u","t">>, << <<"d","o","n","u","t">> >> >>,
    << <<"d","o","u","g","h","n","u","t">>, << <<"d","o","n","u","t">> >> >>,
    << <<"c","a","k","e">>, << <<"c","a","k","e">> >> >>,
    << <<"s","a","n","d","w","i","c","h">>, << <<"s","a","n","d","w","i","c","h">> >> >>,
    << <<"h","o","t"," ","d","o","g">>, << <<"h","o","t"," ","d","o","g">> >> >>,
    << <<"h","o","t","d","o","g">>, << <<"h","o","t"," ","d","o","g">> >> >>,
    << <<"c","a","r","r","o","t">>, << <<"c","a","r","r","o","t">> >> >>,
    << <<"b","r","o","c","c","o","l","i">>, << <<"b","r","o","c","c","o","l","i">> >> >>,
    << <<"b","o","w","l">>, << <<"b","o","w","l">> >> >>,
    << <<"f","o","o","d">>, << <<"p","i","z","z","a">>, <<"s","a","n","d","w","i","c","h">>, <<"a","p","p","l","e">>, <<"b","a","n","a","n","a">>, <<"o","r","a","n","g","e">>, <<"c","a","k","e">>, <<"d","o","n","u","t">> >> >>,
    << <<"f","o","r","k">>, << <<"f","o","r","k">> >> >>,
    << <<"k","n","i","f","e">>, << <<"k","n","i","f","e">> >> >>,
    << <<"s","p","o","o","n">>, << <<"s","p","o","o","n">> >> >>,
    << <<"u","t","e","n","s","i","l">>, << <<"f","o","r","k">>, <<"k","n","i","f","e">>, <<"s","p","o","o","n">> >> >>,
    << <<"m","i","c","r","o","w","a","v","e">>, << <<"m","i","c","r","o","w","a","v","e">> >> >>,
    << <<"o","v","e","n">>, << <<"o","v","e","n">> >> >>,
    << <<"t","o","a","s","t","e","r">>, << <<"t","o","a","s","t","e","r">> >> >>,
    << <<"s","i","n","k">>, << <<"s","i","n","k">> >> >>,
    << <<"r","e","f","r","i","g","e","r","a","t","o","r">>, << <<"r","e","f","r","i","g","e","r","a","t","o","r">> >> >>,
    << <<"f","r","i","d","g","e">>, << <<"r","e","f","r","i","g","e","r","a","t","o","r">> >> >>,
    << <<"b","o","o","k">>, << <<"b","o","o","k">> >> >>,
    << <<"c","l","o","c","k">>, << <<"c","l","o","c","k">> >> >>,
    << <<"w","a","t","c","h">>, << <<"c","l","o","c","k">> >> >>,
    << <<"v","a","s","e">>, << <<"v","a","s","e">> >> >>,
    << <<"s","c","i","s","s","o","r","s">>, << <<"s","c","i","s","s","o","r","s">> >> >>,
    << <<"t","e","d","d","y"," ","b","e","a","r">>, << <<"t","e","d","d","y"," ","b","e","a","r">> >> >>,
    << <<"t","e","d","d","y">>, << <<"t","e","d","d","y"," ","b","e","a","r">> >> >>,
    << <<"s","t","u","f","f","e","d"," ","a","n","i","m","a","l">>, << <<"t","e","d","d","y"," ","b","e","a","r">> >> >>,
    << <<"t","o","o","t","h","b","r","u","s","h">>, << <<"t","o","o","t","h","b","r","u","s","h">> >> >>,
    << <<"h","a","i","r"," ","d","r","i","e","r">>, << <<"h","a","i","r"," ","d","r","i","e","r">> >> >>,
    << <<"h","a","i","r","d","r","y","e","r">>, << <<"h","a","i","r"," ","d","r","i","e","r">> >> >>,
    << <<"b","a","c","k","p","a","c","k">>, << <<"b","a","c","k","p","a","c","k">> >> >>,
    << <<"b","a","g">>, << <<"b","a","c","k","p","a","c","k">>, <<"h","a","n","d","b","a","g">> >> >>,
    << <<"h","a","n","d","b","a","g">>, << <<"h","a","n","d","b","a","g">> >> >>,
    << <<"p","u","r","s","e">>, << <<"h","a","n","d","b","a","g">> >> >>,
    << <<"s","u","i","t","c","a","s","e">>, << <<"s","u","i","t","c","a","s","e">> >> >>,
    << <<"l","u","g","g","a","g","e">>, << <<"s","u","i","t","c","a","s","e">> >> >>,
    << <<"u","m","b","r","e","l","l","a">>, << <<"u","m","b","r","e","l","l","a">> >> >>,
    << <<"t","i","e">>, << <<"t","i","e">> >> >>,
    << <<"n","e","c","k","t","i","e">>, << <<"t","i","e">> >> >>,
    << <<"b","a","l","l">>, << <<"s","p","o","r","t","s"," ","b","a","l","l">> >> >>,
    << <<"s","p","o","r","t","s"," ","b","a","l","l">>, << <<"s","p","o","r","t","s"," ","b","a","l","l">> >> >>,
    << <<"f","r","i","s","b","e","e">>, << <<"f","r","i","s","b","e","e">> >> >>,
    << <<"s","k","a","t","e","b","o","a","r","d">>, << <<"s","k","a","t","e","b","o","a","r","d">> >> >>,
    << <<"s","u","r","f","b","o","a","r","d">>, << <<"s","u","r","f","b","o","a","r","d">> >> >>,
    << <<"t","e","n","n","i","s"," ","r","a","c","k","e","t">>, << <<"t","e","n","n","i","s"," ","r","a","c","k","e","t">> >> >>,
    << <<"r","a","c","k","e","t">>, << <<"t","e","n","n","i","s"," ","r","a","c","k","e","t">> >> >>,
    << <<"b","a","s","e","b","a","l","l"," ","b","a","t">>, << <<"b","a","s","e","b","a","l","l"," ","b","a","t">> >> >>,
    << <<"b","a","t">>, << <<"b","a","s","e","b","a","l","l"," ","b","a","t">> >> >>,
    << <<"b","a","s","e","b","a","l","l"," ","g","l","o","v","e">>, << <<"b","a","s","e","b","a","l","l"," ","g","l","o","v","e">> >> >>,
    << <<"g","l","o","v","e">>, << <<"b","a","s","e","b","a","l","l"," ","g","l","o","v","e">> >> >>,
    << <<"s","k","i","s">>, << <<"s","k","i","s">> >> >>,
    << <<"s","n","o","w","b","o","a","r","d">>, << <<"s","n","o","w","b","o","a","r","d">> >> >>,
    << <<"k","i","t","e">>, << <<"k","i","t","e">> >> >>,
    << <<"c","a","r">>, << <<"c","a","r">> >> >>,
    << <<"a","u","t","o","m","o","b","i","l","e">>, << <<"c","a","r">> >> >>,
    << <<"v","e","h","i","c","l","e">>, << <<"c","a","r">>, <<"t","r","u","c","k">>, <<"b","u","s">>, <<"m","o","t","o","r","c","y","c","l","e">> >> >>,
    << <<"t","r","u","c","k">>, << <<"t","r","u","c","k">> >> >>,
    << <<"b","u","s">>, << <<"b","u","s">> >> >>,
    << <<"m","o","t","o","r","c","y","c","l","e">>, << <<"m","o","t","o","r","c","y","c","l","e">> >> >>,
    << <<"m","o","t","o","r","b","i","k","e">>, << <<"m","o","t","o","r","c","y","c","l","e">> >> >>,
    << <<"b","i","k","e">>, << <<"b","i","c","y","c","l","e">>, <<"m","o","t","o","r","c","y","c","l","e">> >> >>,
    << <<"b","i","c","y","c","l","e">>, << <<"b","i","c","y","c","l","e">> >> >>,
    << <<"b","o","a","t">>, << <<"b","o","a","t">> >> >>,
    << <<"s","h","i","p">>, << <<"b","o","a","t">> >> >>,
    << <<"a","i","r","p","l","a","n","e">>, << <<"a","i","r","p","l","a","n","e">> >> >>,
    << <<"p","l","a","n","e">>, << <<"a","i","r","p","l","a","n","e">> >> >>,
    << <<"t","r","a","i","n">>, << <<"t","r","a","i","n">> >> >>,
    << <<"c","a","t">>, << <<"c","a","t">> >> >>,
    << <<"k","i","t","t","y">>, << <<"c","a","t">> >> >>,
    << <<"d","o","g">>, << <<"d","o","g">> >> >>,
    << <<"p","u","p","p","y">>, << <<"d","o","g">> >> >>,
    << <<"b","i","r","d">>, << <<"b","i","r","d">> >> >>,
    << <<"h","o","r","s","e">>, << <<"h","o","r","s","e">> >> >>,
    << <<"c","o","w">>, << <<"c","o","w">> >> >>,
    << <<"s","h","e","e","p">>, << <<"s","h","e","e","p">> >> >>,
    << <<"e","l","e","p","h","a","n","t">>, << <<"e","l","e","p","h","a","n","t">> >> >>,
    << <<"b","e","a","r">>, << <<"b","e","a","r">> >> >>,
    << <<"z","e","b","r","a">>, << <<"z","e","b","r","a">> >> >>,
    << <<"g","i","r","a","f","f","e">>, << <<"g","i","r","a","f","f","e">> >> >>,
    << <<"a","n","i","m","a","l">>, << <<"c","a","t">>, <<"d","o","g">>, <<"b","i","r","d">>, <<"h","o","r","s","e">>, <<"c","o","w">>, <<"s","h","e","e","p">>, <<"e","l","e","p","h","a","n","t">>, <<"b","e","a","r">> >> >>,
    << <<"p","l","a","n","t">>, << <<"p","o","t","t","e","d"," ","p","l","a","n","t">> >> >>,
    << <<"p","o","t","t","e","d"," ","p","l","a","n","t">>, << <<"p","o","t","t","e","d"," ","p","l","a","n","t">> >> >>,
    << <<"f","l","o","w","e","r">>, << <<"p","o","t","t","e","d"," ","p","l","a","n","t">> >> >>,
    << <<"b","e","n","c","h">>, << <<"b","e","n","c","h">> >> >>,
    << <<"t","o","i","l","e","t">>, << <<"t","o","i","l","e","t">> >> >>,
    << <<"f","i","r","e"," ","h","y","d","r","a","n","t">>, << <<"f","i","r","e"," ","h","y","d","r","a","n","t">> >> >>,
    << <<"h","y","d","r","a","n","t">>, << <<"f","i","r","e"," ","h","y","d","r","a","n","t">> >> >>,
    << <<"s","t","o","p"," ","s","i","g","n">>, << <<"s","t","o","p"," ","s","i","g","n">> >> >>,
    << <<"t","r","a","f","f","i","c"," ","l","i","g","h","t">>, << <<"t","r","a","f","f","i","c"," ","l","i","g","h","t">> >> >>,
    << <<"p","a","r","k","i","n","g"," ","m","e","t","e","r">>, << <<"p","a","r","k","i","n","g"," ","m","e","t","e","r">> >> >>
  >>

\* key in aliases
HasAlias(name) == \E i \in 1..Len(aliases) : aliases[i][1] = name

\* aliases[key]
AliasesOf(name) == aliases[CHOOSE i \in 1..Len(aliases) : aliases[i][1] = name][2]

PERSON == <<"p","e","r","s","o","n">>

(***************************************************************************)
(* Detections.  A raw box of the model is [cls, conf, area, x, y]: the     *)
(* class id, the confidence (3 decimals), the normalised box area          *)
(* (4 decimals) and the normalised centre.                                 *)
(***************************************************************************)
RECURSIVE Digits(_)
Digits(n) ==
  LET d == <<"0","1","2","3","4","5","6","7","8","9">>[(n % 10) + 1]
  IN  IF n < 10 THEN <<d>> ELSE Append(Digits(n \div 10), d)

\* COCO_CLASSES[cls_id] if cls_id < len(COCO_CLASSES) else f"class_{cls_id}"
ClassName(cls_id) ==
  IF cls_id < Len(COCO_CLASSES) THEN COCO_CLASSES[cls_id + 1]
  ELSE <<"c","l","a","s","s","_">> \o Digits(cls_id)

\* the detection dict built from one box
Detection(box) ==
  [class |-> ClassName(box.cls), confidence |-> box.conf, area |-> box.area,
   x |-> box.x, y |-> box.y]

\* target_class is None or cls_name.lower() == target_class.lower()
ClassFilter(cls_name, target_class) ==
  target_class.t = "null" \/ Lower(cls_name) = Lower(target_class.s)

\* the body of detect_objects after the model call: the detections list
RECURSIVE Detections(_, _)
Detections(results, target_class) ==
  IF results = <<>> THEN <<>>
  ELSE LET d == Detection(Head(results))
       IN  (IF ClassFilter(d.class, target_class) THEN <<d>> ELSE <<>>)
           \o Detections(Tail(results), target_class)

(***************************************************************************)
(* The selection policies.  A policy's result is a record; none = TRUE is  *)
(* Python's None.                                                          *)
(***************************************************************************)
None ==
  [none |-> TRUE, detected |-> FALSE, class |-> <<>>, x |-> 0, y |-> 0,
   distance |-> "", confidence |-> 0]

\* {"detected": False, "x": 0, "y": 0}
NotDetected ==
  [none |-> FALSE, detected |-> FALSE, class |-> <<>>, x |-> 0, y |-> 0,
   distance |-> "", confidence |-> 0]

\* result or {"detected": False, "x": 0, "y": 0}
OrNotDetected(result) == IF result.none THEN NotDetected ELSE result

AreaKey(d) == d.area

\* mutant: of several detections of maximal area the last one wins
MaxArea_LastWins(seq) ==
  LET best[i \in 1..Len(seq)] ==
        IF i = 1 THEN seq[1]
        ELSE IF AreaKey(seq[i]) >= AreaKey(best[i - 1]) THEN seq[i] ELSE best[i - 1]
  IN  best[Len(seq)]

\* max(persons, key=lambda d: d["area"]): the first element whose key is maximal
MaxArea(seq) ==
  LET best[i \in 1..Len(seq)] ==
        IF i = 1 THEN seq[1]
        ELSE IF AreaKey(seq[i]) > AreaKey(best[i - 1]) THEN seq[i] ELSE best[i - 1]
  IN  best[Len(seq)]

\* the distance band of find_face; 0.15 and 0.05 in 4-decimal fixed point
CloseArea == 1500
MediumArea == 500

\* mutant: the band boundaries belong to the nearer band
Distance_Inclusive(area) ==
  IF area >= CloseArea THEN "close"
  ELSE IF area >= MediumArea THEN "medium"
  ELSE "far"

Distance(area) ==
  IF area > CloseArea THEN "close"
  ELSE IF area > MediumArea THEN "medium"
  ELSE "far"

\* mutant: the Face policy takes every detection for a person
IsPerson_Any(d) == TRUE

IsPerson(d) == d.class = PERSON

find_face(detections) ==
  LET persons == SelectSeq(detections, IsPerson)
  IN  IF persons = <<>> THEN None
      ELSE LET largest == MaxArea(persons)
           IN  [none |-> FALSE, detected |-> TRUE, class |-> <<>>,
                x |-> largest.x, y |-> largest.y,
                distance |-> Distance(largest.area),
                confidence |-> largest.confidence]

\* mutant: the name is lowercased but not trimmed
Normalize_LowerOnly(object_name) == Lower(object_name)

\* object_name.lower().strip()
Normalize(object_name) == Strip(Lower(object_name))

\* mutant: an alias key is replaced by its labels
SearchNames_AliasesOnly(object_name) ==
  IF HasAlias(object_name) THEN AliasesOf(object_name) ELSE <<object_name>>

\* search_names = [object_name] + aliases[object_name] when it is a key
SearchNames(object_name) ==
  IF HasAlias(object_name) THEN <<object_name>> \o AliasesOf(object_name)
  ELSE <<object_name>>

\* mutant: only a label among the search names matches
Matches_ExactOnly(d, object_name) == InList(Lower(d.class), SearchNames(object_name))

\* cls_lower in search_names or object_name in cls_lower
Matches(d, object_name) ==
  LET cls_lower == Lower(d.class)
  IN  InList(cls_lower, SearchNames(object_name)) \/ IsSubstring(object_name, cls_lower)

ScoreKey(d) == d.area * d.confidence

\* mutant: the largest match wins, whatever its confidence
MaxScore_ByArea(seq) ==
  LET best[i \in 1..Len(seq)] ==
        IF i = 1 THEN seq[1]
        ELSE IF seq[i].area > best[i - 1].area THEN seq[i] ELSE best[i - 1]
  IN  best[Len(seq)]

\* max(matches, key=lambda d: d["area"] * d["confidence"]): the first maximal one
MaxScore(seq) ==
  LET best[i \in 1..Len(seq)] ==
        IF i = 1 THEN seq[1]
        ELSE IF ScoreKey(seq[i]) > ScoreKey(best[i - 1]) THEN seq[i] ELSE best[i - 1]
  IN  best[Len(seq)]

\* find_tracked_object for a string; on any other value .lower() raises
find_tracked_object(detections, name) ==
  LET object_name == Normalize(name)
      IsMatch(d) == Matches(d, object_name)
      matches == SelectSeq(detections, IsMatch)
  IN  IF matches = <<>> THEN None
      ELSE LET best == MaxScore(matches)
           IN  [none |-> FALSE, detected |-> TRUE, class |-> best.class,
                x |-> best.x, y |-> best.y, distance |-> "",
                confidence |-> best.confidence]

(***************************************************************************)
(* Requests.  A connection carries a method and a path; the body is read   *)
(* by do_POST.  A body is empty ("empty": json.loads("") raises            *)
(* JSONDecodeError), malformed JSON ("invalid"), JSON that is no object    *)
(* ("nonobject") or an object, of which                                    *)
(* the handler reads 'image' and 'object' with dict.get.  "badlength" is a *)
(* request whose Content-Length is no integer, "badutf8" one whose body is *)
(* not UTF-8: int() and decode() raise before the try block.               *)
(***************************************************************************)
Endpoints ==
  { [method |-> "GET", path |-> "/health"],
    [method |-> "GET", path |-> "/classes"],
    [method |-> "GET", path |-> "/nope"],
    [method |-> "POST", path |-> "/detect"],
    [method |-> "POST", path |-> "/track/face"],
    [method |-> "POST", path |-> "/track/object"],
    [method |-> "POST", path |-> "/track/set"],
    [method |-> "POST", path |-> "/track/clear"],
    [method |-> "POST", path |-> "/track/auto"],
    [method |-> "POST", path |-> "/nope"] }

NoReq == [method |-> "", path |-> ""]

ImagePaths == {"/detect", "/track/face", "/track/object", "/track/auto"}

CUP == <<"c","u","p">>
PHONE_MIXED == <<"P","h","o","n","e">>

\* values of the 'object' field
Objects == {Null, JStr(<<>>), JStr(CUP), JStr(PHONE_MIXED), JNum(5)}

\* the base64 payloads that decode to an image
Decodable == { <<"A">> }

\* values of the 'image' field: raw payloads, data URLs, not a string
Images ==
  {Null, JStr(<<>>), JStr(<<"A">>), JStr(<<"d",",","A">>), JStr(<<"!">>), JNum(5)}

NoData == [kind |-> "", image |-> Null, object |-> Null]

Bodies(path) ==
  { [kind |-> k, image |-> Null, object |-> Null] :
      k \in {"badlength", "badutf8", "empty", "invalid", "nonobject"} }
  \cup
  { [kind |-> "object", image |-> i, object |-> o] :
      i \in (IF path \in ImagePaths THEN Images ELSE {Null}),
      o \in (IF path \in {"/track/object", "/track/set"} THEN Objects ELSE {Null}) }

\* mutant: every 'image' value decodes
decode_image_Lenient(base64_data, yolo_available) == TRUE

\* decode_image(base64_data) is not None.  yolo_available: the module's imports
\* succeeded; when they did not, the name Image is unbound and Image.open raises
\* NameError, which the except clause turns into None like any other failure.
decode_image(base64_data, yolo_available) ==
  IF base64_data.t # "str" \/ ~yolo_available THEN FALSE
  ELSE LET payload == IF InList(",", base64_data.s)
                      THEN SplitComma(base64_data.s, <<>>)[2]
                      ELSE base64_data.s
       IN  payload \in Decodable

\* what one inference may return
Boxes ==
  { [cls |-> 0, conf |-> 900, area |-> 2000, x |-> 1, y |-> 1],
    [cls |-> 41, conf |-> 900, area |-> 1000, x |-> 2, y |-> 2],
    [cls |-> 67, conf |-> 600, area |-> 3000, x |-> 3, y |-> 3] }

BoxLists == UNION { [1..n -> Boxes] : n \in 0..MaxDets }

(***************************************************************************)
(* Responses.  status 0 is a handler that raised: the server closes the    *)
(* connection without a response.  policy and policy_name record which     *)
(* policy the handler ran and on which name.                               *)
(***************************************************************************)
NoResp ==
  [status |-> -1, error |-> "", success |-> FALSE, mode |-> "", tracking |-> Null,
   result |-> None, count |-> 0, policy |-> "", policy_name |-> Null,
   yolo_available |-> FALSE, model_loaded |-> FALSE]

Error(status, msg) == [NoResp EXCEPT !.status = status, !.error = msg]

Success == [NoResp EXCEPT !.status = 200, !.success = TRUE]

Raised == [NoResp EXCEPT !.status = 0]

NoDetections == [err |-> "", list |-> <<>>]

(***************************************************************************)
(* State.                                                                  *)
(***************************************************************************)
VARIABLES
  YOLO_AVAILABLE,   \* the import of ultralytics and PIL succeeded
  model,            \* "None" or "YOLO"
  model_lock,       \* "free" or "held"
  tracked_object,   \* the global: a JSON value, Null for None
  started,          \* the server socket is bound (main reached HTTPServer(...))
  pending,          \* accepted connections waiting in the listen backlog
  cur,              \* the request the server thread is handling, or handled last
  pc,               \* where the server thread is
  data,             \* do_POST: the parsed body
  object_name,      \* do_POST, /track/object: the local object_name
  detections,       \* the value detect_objects returns: a list or an error dict
  resp,             \* what the handler wrote to the current connection
  trail,            \* history: the successful /track/set, /track/clear that ended
                    \* just before cur: "set", "clear", "set;clear" or "other"
  before,           \* history: tracked_object when cur was accepted
  body_kind,        \* history: the kind of body cur carried ("" for none read)
  constructions,    \* history: how many times YOLO(MODEL_PATH) has returned a model
  results,          \* detect_objects' results, kept when a policy is run on its own
  search_names,     \* find_tracked_object's search_names, likewise
  last_change,      \* history: the last /track/set or /track/clear completed
  ever_set          \* history: a /track/set has completed since start

vars ==
  <<YOLO_AVAILABLE, model, model_lock, tracked_object, started, pending, cur, pc,
    data, object_name, detections, resp, trail, before, body_kind, last_change,
    ever_set, constructions, results, search_names>>

history == <<trail, before, body_kind, last_change, ever_set>>

\* the locals of detect_objects and find_tracked_object that the server's steps
\* compute and consume within one step
policy_locals == <<results, search_names>>

\* mutant: the service starts with a target already stored
InitTracked_Cup == JStr(CUP)

\* tracked_object = None
InitTracked == Null

Init ==
  /\ YOLO_AVAILABLE \in BOOLEAN
  /\ model = "None"
  /\ model_lock = "free"
  /\ tracked_object = InitTracked
  /\ started = FALSE
  /\ pending = <<>>
  /\ cur = NoReq
  /\ pc = "main"
  /\ data = NoData
  /\ object_name = Null
  /\ detections = NoDetections
  /\ resp = NoResp
  /\ trail = "other"
  /\ before = InitTracked
  /\ body_kind = ""
  /\ last_change = [op |-> "none", name |-> Null]
  /\ ever_set = FALSE
  /\ constructions = 0
  /\ results = <<>>
  /\ search_names = <<>>

(***************************************************************************)
(* Threading.Lock, used as  with model_lock:                               *)
(***************************************************************************)
CanAcquire(lock) == lock = "free"

\* mutant: entering the with block does not take the lock
Acquired_NoOp(lock) == lock

Acquired(lock) == "held"

\* mutant: leaving the with block keeps the lock
Released_Leak(lock) == lock

Released(lock) == "free"

(***************************************************************************)
(* main, up to serve_forever: the model is pre-loaded when the packages    *)
(* are there, then the server socket is bound.                             *)
(***************************************************************************)
MainStart ==
  /\ pc = "main"
  /\ IF YOLO_AVAILABLE
     THEN pc' = "load" /\ UNCHANGED started
     ELSE pc' = "idle" /\ started' = TRUE
  /\ UNCHANGED <<constructions, policy_locals,
                 YOLO_AVAILABLE, model, model_lock, tracked_object, pending, cur,
                 data, object_name, detections, resp, history>>

(***************************************************************************)
(* load_model, called by main and by detect_objects.                       *)
(***************************************************************************)
\* what the caller does with load_model's return value
LoadReturn(ok) ==
  IF ~started
  THEN /\ started' = TRUE
       /\ pc' = "idle"
       /\ UNCHANGED detections
  ELSE /\ UNCHANGED started
       /\ IF ok
          THEN pc' = "infer_acquire" /\ UNCHANGED detections
          ELSE /\ pc' = "resolve"
               /\ detections' = [err |-> "YOLO model not available", list |-> <<>>]

LoadEnter ==
  /\ pc = "load"
  /\ IF ~YOLO_AVAILABLE
     THEN LoadReturn(FALSE) /\ UNCHANGED model_lock
     ELSE /\ CanAcquire(model_lock)
          /\ model_lock' = Acquired(model_lock)
          /\ pc' = "load_locked"
          /\ UNCHANGED <<started, detections>>
  /\ UNCHANGED <<constructions, policy_locals,
                 YOLO_AVAILABLE, model, tracked_object, pending, cur, data,
                 object_name, resp, history>>

\* if model is None: model = YOLO(MODEL_PATH), which may raise
LoadConstruct ==
  /\ pc = "load_locked"
  /\ IF model = "None"
     THEN \/ model' = "YOLO" /\ pc' = "load_ok" /\ constructions' = constructions + 1
          \/ model' = model /\ pc' = "load_raised" /\ UNCHANGED constructions
     ELSE model' = model /\ pc' = "load_ok" /\ UNCHANGED constructions
  /\ UNCHANGED <<policy_locals,
                 YOLO_AVAILABLE, model_lock, tracked_object, started, pending, cur,
                 data, object_name, detections, resp, history>>

\* leaving the with block, then return True / except: return False
LoadExit ==
  /\ pc \in {"load_ok", "load_raised"}
  /\ model_lock' = Released(model_lock)
  /\ LoadReturn(pc = "load_ok")
  /\ UNCHANGED <<constructions, policy_locals,
                 YOLO_AVAILABLE, model, tracked_object, pending, cur, data,
                 object_name, resp, history>>

(***************************************************************************)
(* HTTPServer.serve_forever: one thread, one request at a time.            *)
(***************************************************************************)
\* a client connects
Arrive ==
  /\ started
  /\ Len(pending) < MaxPending
  /\ \E e \in Endpoints : pending' = Append(pending, e)
  /\ UNCHANGED <<constructions, policy_locals,
                 YOLO_AVAILABLE, model, model_lock, tracked_object, started, cur, pc,
                 data, object_name, detections, resp, history>>

\* the history of successful state changes, extended by the request that ended
TrailAfter(old, path, status) ==
  IF status # 200 THEN "other"
  ELSE IF path = "/track/set" THEN "set"
  ELSE IF path = "/track/clear"
  THEN IF old = "set" THEN "set;clear" ELSE "clear"
  ELSE "other"

\* the server thread can take the next connection
CanAccept == pc = "idle"

Accept ==
  /\ CanAccept
  /\ pending # <<>>
  /\ cur' = Head(pending)
  /\ pending' = Tail(pending)
  /\ pc' = "handle"
  /\ resp' = NoResp
  /\ trail' = TrailAfter(trail, cur.path, resp.status)
  /\ before' = tracked_object
  /\ body_kind' = ""
  /\ UNCHANGED <<constructions, policy_locals,
                 YOLO_AVAILABLE, model, model_lock, tracked_object, started, data,
                 object_name, detections, last_change, ever_set>>

\* the handler returns (or raises): the server thread is free again
Respond(r) ==
  /\ resp' = r
  /\ pc' = "idle"
  /\ data' = NoData
  /\ object_name' = Null
  /\ detections' = NoDetections
  /\ UNCHANGED <<cur, trail, before>>

(***************************************************************************)
(* TrackingHandler.do_GET                                                  *)
(***************************************************************************)
HealthResponse ==
  [Success EXCEPT !.success = FALSE, !.tracking = tracked_object,
                  !.yolo_available = YOLO_AVAILABLE,
                  !.model_loaded = (model # "None")]

DoGet ==
  /\ pc = "handle"
  /\ cur.method = "GET"
  /\ Respond(CASE cur.path = "/health" -> HealthResponse
               [] cur.path = "/classes" -> [Success EXCEPT !.success = FALSE,
                                                           !.count = Len(COCO_CLASSES)]
               [] OTHER -> Error(404, "Unknown endpoint"))
  /\ UNCHANGED <<constructions, policy_locals,
                 YOLO_AVAILABLE, model, model_lock, tracked_object, started, pending,
                 body_kind, last_change, ever_set>>

(***************************************************************************)
(* TrackingHandler.do_POST                                                 *)
(***************************************************************************)
\* content_length = int(...); body = rfile.read(...).decode('utf-8');
\* data = json.loads(body)
ReadBody ==
  /\ pc = "handle"
  /\ cur.method = "POST"
  /\ \E body \in Bodies(cur.path) :
       /\ body_kind' = body.kind
       /\ IF body.kind \in {"badlength", "badutf8"}
          THEN Respond(Raised)
          ELSE IF body.kind \in {"empty", "invalid"}
          THEN Respond(Error(400, "Invalid JSON"))
          ELSE
            /\ data' = body
            /\ pc' = "route"
            /\ UNCHANGED <<cur, object_name, detections, resp, trail, before>>
  /\ UNCHANGED <<constructions, policy_locals,
                 YOLO_AVAILABLE, model, model_lock, tracked_object, started, pending,
                 last_change, ever_set>>

\* mutant: /track/set keeps a target that is already stored
TrackedAfter_KeepsPrior(path, object, tracked) ==
  CASE path = "/track/set" -> IF tracked = Null THEN object ELSE tracked
    [] path = "/track/clear" -> Null
    [] OTHER -> tracked

\* mutant: /track/object remembers the name it was given
TrackedAfter_ObjectStores(path, object, tracked) ==
  CASE path = "/track/set" -> object
    [] path = "/track/clear" -> Null
    [] path = "/track/object" /\ Truthy(object) -> object
    [] OTHER -> tracked

\* mutant: /track/clear stores an empty name instead of None
TrackedAfter_ClearToEmpty(path, object, tracked) ==
  CASE path = "/track/set" -> object
    [] path = "/track/clear" -> JStr(<<>>)
    [] OTHER -> tracked

\* the assignments to the global tracked_object in the route branches
TrackedAfter(path, object, tracked) ==
  CASE path = "/track/set" -> object
    [] path = "/track/clear" -> Null
    [] OTHER -> tracked

\* /track/set:  {"success": True, "tracking": tracked_object}
SetResponse(tracked) == [Success EXCEPT !.tracking = tracked]

\* mutant: /track/clear answers with the target it has just dropped
ClearResponse_Stale(tracked) == [Success EXCEPT !.tracking = tracked]

\* /track/clear:  {"success": True, "tracking": None}
ClearResponse(tracked) == [Success EXCEPT !.tracking = Null]

\* mutant: /track/object prefers the stored target to the supplied name
ObjectName_PrefersStored(object, tracked) == Or(tracked, object)

\* /track/object:  object_name = data.get('object') or tracked_object
ObjectName(object, tracked) == Or(object, tracked)

\* the image endpoints up to the call of detect_objects
RouteImage ==
  LET name == IF cur.path = "/track/object"
              THEN ObjectName(data.object, tracked_object) ELSE Null
  IN  /\ IF ~Truthy(data.image)
         THEN Respond(Error(400, "No image provided"))
         ELSE IF cur.path = "/track/object" /\ ~Truthy(name)
         THEN Respond(Error(400, "No object specified to track"))
         ELSE IF ~decode_image(data.image, YOLO_AVAILABLE)
         THEN Respond(Error(400, "Failed to decode image"))
         ELSE /\ pc' = "detect"
              /\ object_name' = name
              /\ data' = NoData
              /\ UNCHANGED <<cur, detections, resp, trail, before>>
      /\ tracked_object' = TrackedAfter(cur.path, data.object, tracked_object)
      /\ UNCHANGED <<last_change, ever_set>>

RouteSet ==
  /\ tracked_object' = TrackedAfter(cur.path, data.object, tracked_object)
  /\ Respond(SetResponse(tracked_object'))
  /\ last_change' = [op |-> "set", name |-> data.object]
  /\ ever_set' = TRUE

RouteClear ==
  /\ tracked_object' = TrackedAfter(cur.path, data.object, tracked_object)
  /\ Respond(ClearResponse(tracked_object))
  /\ last_change' = [op |-> "clear", name |-> Null]
  /\ UNCHANGED ever_set

\* the if / elif chain on self.path up to the first send_json or detect_objects
PostRoute ==
  /\ pc = "route"
  /\ IF cur.path \in ImagePaths \cup {"/track/set"} /\ data.kind = "nonobject"
     THEN \* data.get raises AttributeError
          Respond(Raised) /\ UNCHANGED <<tracked_object, last_change, ever_set>>
     ELSE IF cur.path \in ImagePaths THEN RouteImage
     ELSE IF cur.path = "/track/set" THEN RouteSet
     ELSE IF cur.path = "/track/clear" THEN RouteClear
     ELSE /\ Respond(Error(404, "Unknown endpoint"))
          /\ UNCHANGED <<tracked_object, last_change, ever_set>>
  /\ UNCHANGED <<constructions, policy_locals,
                 YOLO_AVAILABLE, model, model_lock, started, pending, body_kind>>

(***************************************************************************)
(* detect_objects                                                          *)
(***************************************************************************)
\* mutant: an unloaded model is reported at once, without a call of load_model
DetectEnter_FailFast ==
  /\ pc = "detect"
  /\ IF model = "None"
     THEN /\ pc' = "resolve"
          /\ detections' = [err |-> "YOLO model not available", list |-> <<>>]
     ELSE pc' = "infer_acquire" /\ UNCHANGED detections
  /\ UNCHANGED <<YOLO_AVAILABLE, model, model_lock, tracked_object, started, pending,
                 cur, data, object_name, resp, history, constructions, policy_locals>>

\* if model is None: if not load_model(): return {"error": ...}
DetectEnter ==
  /\ pc = "detect"
  /\ pc' = IF model = "None" THEN "load" ELSE "infer_acquire"
  /\ UNCHANGED <<constructions, policy_locals,
                 YOLO_AVAILABLE, model, model_lock, tracked_object, started, pending,
                 cur, data, object_name, detections, resp, history>>

\* with model_lock:
InferAcquire ==
  /\ pc = "infer_acquire"
  /\ CanAcquire(model_lock)
  /\ model_lock' = Acquired(model_lock)
  /\ pc' = "infer"
  /\ UNCHANGED <<constructions, policy_locals,
                 YOLO_AVAILABLE, model, tracked_object, started, pending, cur, data,
                 object_name, detections, resp, history>>

\* detect_objects(image, target_class="person") in /track/face, None elsewhere
TargetClass(path) == IF path = "/track/face" THEN JStr(PERSON) ELSE Null

\* results = model(image, verbose=False, conf=0.5)
ModelCall ==
  /\ pc = "infer"
  /\ \E boxes \in BoxLists :
       detections' = [err |-> "", list |-> Detections(boxes, TargetClass(cur.path))]
  /\ pc' = "infer_exit"
  /\ UNCHANGED <<constructions, policy_locals,
                 YOLO_AVAILABLE, model, model_lock, tracked_object, started, pending,
                 cur, data, object_name, resp, history>>

\* mutant: a raising model call throws the model away
ModelRaises_DropsModel ==
  /\ pc = "infer"
  /\ detections' = [err |-> "inference failed", list |-> <<>>]
  /\ model' = "None"
  /\ pc' = "infer_exit"
  /\ UNCHANGED <<YOLO_AVAILABLE, model_lock, tracked_object, started, pending,
                 cur, data, object_name, resp, history, constructions, policy_locals>>

\* the model call raises:  except Exception as e: return {"error": str(e)}
ModelRaises ==
  /\ pc = "infer"
  /\ detections' = [err |-> "inference failed", list |-> <<>>]
  /\ pc' = "infer_exit"
  /\ UNCHANGED <<constructions, policy_locals,
                 YOLO_AVAILABLE, model, model_lock, tracked_object, started, pending,
                 cur, data, object_name, resp, history>>

\* leaving the with block
InferExit ==
  /\ pc = "infer_exit"
  /\ model_lock' = Released(model_lock)
  /\ pc' = "resolve"
  /\ UNCHANGED <<constructions, policy_locals,
                 YOLO_AVAILABLE, model, tracked_object, started, pending, cur, data,
                 object_name, detections, resp, history>>

(***************************************************************************)
(* do_POST after detect_objects returned.                                  *)
(***************************************************************************)
\* mutant: /detect reports an empty detection list as a failure
DetectResponse_EmptyIsError(list) ==
  IF list = <<>> THEN Error(500, "nothing detected")
  ELSE [Success EXCEPT !.count = Len(list)]

DetectResponse(list) ==
  [Success EXCEPT !.count = Len(list)]

\* mutant: /track/face looks for the stored target when there is one
FaceResponse_FollowsTarget(list) ==
  [Success EXCEPT !.result = OrNotDetected(IF Truthy(tracked_object)
                                           THEN find_tracked_object(list, tracked_object.s)
                                           ELSE find_face(list)),
                  !.policy = "face"]

FaceResponse(list) ==
  [Success EXCEPT !.result = OrNotDetected(find_face(list)), !.policy = "face"]

\* find_tracked_object calls object_name.lower(): only a str has it
ObjectResponse(list, name) ==
  IF name.t # "str" THEN Raised
  ELSE [Success EXCEPT !.tracking = name,
                       !.result = OrNotDetected(find_tracked_object(list, name.s)),
                       !.policy = "object", !.policy_name = name]

\* mutant: /track/auto ignores the stored target
AutoMode_AlwaysFace(tracked) == "face"

\* if tracked_object: ... mode = "object"  else: ... mode = "face"
AutoMode(tracked) == IF Truthy(tracked) THEN "object" ELSE "face"

\* the "tracking" field of the /track/auto response
AutoTracking(tracked) == tracked

AutoResponse(list, tracked) ==
  IF AutoMode(tracked) = "object"
  THEN IF tracked.t # "str" THEN Raised
       ELSE [Success EXCEPT !.mode = "object", !.tracking = AutoTracking(tracked),
                            !.result = OrNotDetected(find_tracked_object(list, tracked.s)),
                            !.count = Len(list),
                            !.policy = "object", !.policy_name = tracked]
  ELSE [Success EXCEPT !.mode = "face", !.tracking = AutoTracking(tracked),
                       !.result = OrNotDetected(find_face(list)),
                       !.count = Len(list), !.policy = "face"]

PostResolve ==
  /\ pc = "resolve"
  /\ Respond(IF detections.err # "" THEN Error(500, detections.err)
             ELSE CASE cur.path = "/detect" -> DetectResponse(detections.list)
                    [] cur.path = "/track/face" -> FaceResponse(detections.list)
                    [] cur.path = "/track/object" ->
                         ObjectResponse(detections.list, object_name)
                    [] OTHER -> AutoResponse(detections.list, tracked_object))
  /\ tracked_object' = TrackedAfter(cur.path, data.object, tracked_object)
  /\ UNCHANGED <<constructions, policy_locals,
                 YOLO_AVAILABLE, model, model_lock, started, pending, body_kind,
                 last_change, ever_set>>

Next ==
  \/ MainStart
  \/ LoadEnter
  \/ LoadConstruct
  \/ LoadExit
  \/ Arrive
  \/ Accept
  \/ DoGet
  \/ ReadBody
  \/ PostRoute
  \/ DetectEnter
  \/ InferAcquire
  \/ ModelCall
  \/ ModelRaises
  \/ InferExit
  \/ PostResolve

Spec == Init /\ [][Next]_vars

(***************************************************************************)
(* The selection policies on their own: find_face applied to every list of *)
(* at most MaxLen detections that detect_objects can build from boxes of   *)
(* two classes, with areas on and next to the band boundaries and two      *)
(* centre positions to tell equal-area detections apart.                   *)
(***************************************************************************)
PolicyBoxes ==
  [cls : {0, 41}, conf : {900}, area : {MediumArea, MediumArea + 1,
                                        CloseArea, CloseArea + 1},
   x : {1, 2}, y : {1}]

PolicyBoxLists == UNION { [1..n -> PolicyBoxes] : n \in 0..MaxLen }

InitPolicy ==
  /\ YOLO_AVAILABLE = TRUE
  /\ model = "YOLO"
  /\ model_lock = "free"
  /\ tracked_object = InitTracked
  /\ started = TRUE
  /\ pending = <<>>
  /\ cur = NoReq
  /\ pc = "policy"
  /\ data = NoData
  /\ object_name = Null
  /\ results \in PolicyBoxLists
  /\ detections = [err |-> "", list |-> Detections(results, Null)]
  /\ resp = NoResp
  /\ trail = "other"
  /\ before = InitTracked
  /\ body_kind = ""
  /\ last_change = [op |-> "none", name |-> Null]
  /\ ever_set = FALSE
  /\ constructions = 1
  /\ search_names = <<>>

\* face = find_face(detections)
ApplyFace ==
  /\ pc = "policy"
  /\ resp' = [NoResp EXCEPT !.result = find_face(detections.list), !.policy = "face"]
  /\ pc' = "face"
  /\ UNCHANGED <<constructions, policy_locals,
                 YOLO_AVAILABLE, model, model_lock, tracked_object, started, pending,
                 cur, data, object_name, detections, history>>

\* /track/auto with no target stored:  detections = detect_objects(image);
\* result = find_face(detections)
ApplyAuto ==
  /\ pc = "policy"
  /\ resp' = AutoResponse(detections.list, tracked_object)
  /\ pc' = "auto"
  /\ UNCHANGED <<YOLO_AVAILABLE, model, model_lock, tracked_object, started, pending,
                 cur, data, object_name, detections, history, constructions,
                 policy_locals>>

\* /track/face on the same results:
\* detections = detect_objects(image, target_class="person"); face = find_face(detections)
ApplyTrackFace ==
  /\ pc = "auto"
  /\ detections' = [err |-> "", list |-> Detections(results, TargetClass("/track/face"))]
  /\ resp' = FaceResponse(detections'.list)
  /\ pc' = "track_face"
  /\ UNCHANGED <<YOLO_AVAILABLE, model, model_lock, tracked_object, started, pending,
                 cur, data, object_name, history, constructions, policy_locals>>

NextPolicy == ApplyFace \/ ApplyAuto \/ ApplyTrackFace

SpecPolicy == InitPolicy /\ [][NextPolicy]_vars

(***************************************************************************)
(* find_tracked_object on its own, applied to every list of at most        *)
(* MaxObjLen detections of five classes (bicycle, motorcycle, dog, hot     *)
(* dog, cell phone) with area and confidence (0.1, 0.9) or (0.3, 0.2), and *)
(* to names that are an alias key, lead to two labels, are unknown, are a  *)
(* class and part of another, need normalising, or are blank.              *)
(***************************************************************************)
PHONE == <<"p","h","o","n","e">>
BIKE == <<"b","i","k","e">>
BIKE_PADDED == <<" ","B","i","k","e"," ">>
WIDGET == <<"w","i","d","g","e","t">>
DOG == <<"d","o","g">>
BLANK == <<" ">>

ObjectNames == {PHONE, BIKE, BIKE_PADDED, WIDGET, DOG, BLANK}

ObjectBoxes ==
  { [cls |-> c, conf |-> s[2], area |-> s[1], x |-> x, y |-> 1] :
      c \in {1, 3, 16, 52, 67}, s \in {<<1000, 900>>, <<3000, 200>>}, x \in {1, 2} }

ObjectBoxLists == UNION { [1..n -> ObjectBoxes] : n \in 0..MaxObjLen }

InitObject ==
  /\ YOLO_AVAILABLE = TRUE
  /\ model = "YOLO"
  /\ model_lock = "free"
  /\ tracked_object = InitTracked
  /\ started = TRUE
  /\ pending = <<>>
  /\ cur = NoReq
  /\ pc = "policy"
  /\ data = NoData
  /\ \E name \in ObjectNames : object_name = JStr(name)
  /\ results \in ObjectBoxLists
  /\ detections = [err |-> "", list |-> Detections(results, Null)]
  /\ resp = NoResp
  /\ trail = "other"
  /\ before = InitTracked
  /\ body_kind = ""
  /\ last_change = [op |-> "none", name |-> Null]
  /\ ever_set = FALSE
  /\ constructions = 1
  /\ search_names = <<>>

\* result = find_tracked_object(detections, object_name)
ApplyObject ==
  /\ pc = "policy"
  /\ search_names' = SearchNames(Normalize(object_name.s))
  /\ resp' = [NoResp EXCEPT !.result = find_tracked_object(detections.list, object_name.s),
                            !.policy = "object", !.policy_name = object_name]
  /\ pc' = "object"
  /\ UNCHANGED <<YOLO_AVAILABLE, model, model_lock, tracked_object, started, pending,
                 cur, data, object_name, detections, history, constructions, results>>

NextObject == ApplyObject

SpecObject == InitObject /\ [][NextObject]_vars

(***************************************************************************)
(* Properties.                                                             *)
(***************************************************************************)
\* a non-empty string
IsName(v) == v.t = "str" /\ Len(v.s) > 0

\* the handler of cur has ended with a response
Answered(path) == pc = "idle" /\ cur.path = path /\ resp.status > 0

\* the server thread is in detect_objects' with block, or about to enter it
InInference == pc \in {"infer", "infer_exit"}

\* C1: whenever the mode is object the stored target is a non-empty name, and
\* whenever the mode is face no target name is stored at all (the stored value
\* is None).
C1_ModeNameInvariant ==
  /\ AutoMode(tracked_object) = "object" => IsName(tracked_object)
  /\ AutoMode(tracked_object) = "face" => tracked_object = Null

\* C2: the /track/set handler, given a name, stores that name whatever was stored
\* before, and answers success with 'tracking' equal to the name now stored.
C2_SetTargetReplaces ==
  [][ (pc = "route" /\ pc' = "idle" /\ cur.path = "/track/set" /\ IsName(data.object))
      => /\ tracked_object' = data.object
         /\ resp'.status = 200 /\ resp'.success
         /\ resp'.tracking = tracked_object' ]_vars

\* C2 witness: a set of "cup" has been answered while "Phone" was stored
C2_Witness ==
  /\ Answered("/track/set")
  /\ before = JStr(PHONE_MIXED)
  /\ tracked_object = JStr(CUP)
  /\ resp.tracking = JStr(CUP)

\* C3: the /track/clear handler leaves no target stored and answers
\* {success: true, tracking: null} from every state; applied right after another
\* clear it leaves the state as it was.
C3_ClearIdempotent ==
  [][ (pc = "route" /\ pc' = "idle" /\ cur.path = "/track/clear")
      => /\ tracked_object' = Null
         /\ resp'.status = 200 /\ resp'.success /\ resp'.tracking = Null
         /\ (trail \in {"clear", "set;clear"} => tracked_object' = tracked_object) ]_vars

\* C3 witness: two clears in a row have been answered, the first one from Object
C3_Witness ==
  /\ Answered("/track/clear")
  /\ trail = "set;clear"
  /\ resp.status = 200
  /\ tracked_object = Null

\* C4: no step of the server changes the stored target, except the last step of
\* a /track/set or /track/clear handler.
C4_QueriesKeepState ==
  [][ ~(pc = "route" /\ cur.path \in {"/track/set", "/track/clear"})
      => tracked_object' = tracked_object ]_vars

\* C4 witness: /track/object given the name "cup" has been answered while "Phone"
\* was and still is the stored target
C4_Witness ==
  /\ Answered("/track/object")
  /\ resp.status = 200
  /\ resp.tracking = JStr(CUP)
  /\ before = JStr(PHONE_MIXED)
  /\ tracked_object = JStr(PHONE_MIXED)

\* C5: as long as no /track/set has completed since start, every /track/auto
\* request that reaches target selection (its input was accepted and inference
\* returned detections) is answered with mode "face" and the Face policy's
\* result, whatever requests were handled before it.
C5_AutoFaceWhenNeverSet ==
  [][ (pc = "resolve" /\ pc' = "idle" /\ cur.path = "/track/auto"
       /\ detections.err = "" /\ ~ever_set)
      => /\ resp'.status = 200
         /\ resp'.mode = "face"
         /\ resp'.policy = "face"
         /\ resp'.tracking = Null
         /\ resp'.result = OrNotDetected(find_face(detections.list)) ]_vars

\* C5 witness: an auto request found a face, another request is waiting and no
\* target was ever set
C5_Witness ==
  /\ ~ever_set
  /\ Answered("/track/auto")
  /\ resp.mode = "face"
  /\ resp.result.detected
  /\ pending # <<>>

\* C6: when the last completed change was a set of a name, a /track/auto request
\* that reaches target selection answers mode "object", 'tracking' that name and
\* the Object policy's result for that name; when it was a clear, it answers mode
\* "face" and the Face policy's result.
C6_AutoFollowsLastChange ==
  [][ (pc = "resolve" /\ pc' = "idle" /\ cur.path = "/track/auto" /\ detections.err = "")
      => /\ (last_change.op = "set" /\ IsName(last_change.name))
              => /\ resp'.status = 200
                 /\ resp'.mode = "object"
                 /\ resp'.tracking = last_change.name
                 /\ resp'.policy = "object"
                 /\ resp'.policy_name = last_change.name
                 /\ resp'.result =
                      OrNotDetected(find_tracked_object(detections.list, last_change.name.s))
         /\ last_change.op = "clear"
              => /\ resp'.status = 200
                 /\ resp'.mode = "face"
                 /\ resp'.policy = "face"
                 /\ resp'.result = OrNotDetected(find_face(detections.list)) ]_vars

\* C6 witness: after a set of "cup", an auto request found the cup
C6_Witness ==
  /\ Answered("/track/auto")
  /\ last_change = [op |-> "set", name |-> JStr(CUP)]
  /\ resp.mode = "object"
  /\ resp.result.detected
  /\ resp.result.class = CUP

\* C6 witness, second half: after a set and a clear, an auto request ran Face
C6_WitnessClear ==
  /\ Answered("/track/auto")
  /\ last_change.op = "clear"
  /\ ever_set
  /\ resp.mode = "face"

\* C7: a successful clear right after a successful set leaves the stored target
\* as it is at service start, and the /track/auto request handled next answers
\* what a service in its start state answers on the same detections.
C7_SetClearIsFresh ==
  [][ /\ (pc = "route" /\ pc' = "idle" /\ cur.path = "/track/clear" /\ trail = "set")
        => tracked_object' = InitTracked
      /\ (pc = "resolve" /\ pc' = "idle" /\ cur.path = "/track/auto"
          /\ trail = "set;clear" /\ detections.err = "")
        => resp' = [Success EXCEPT !.mode = "face", !.tracking = Null,
                                   !.result = OrNotDetected(find_face(detections.list)),
                                   !.count = Len(detections.list),
                                   !.policy = "face"] ]_vars

\* C7 witness: set, clear, then an auto request that found a face
C7_Witness ==
  /\ Answered("/track/auto")
  /\ trail = "set;clear"
  /\ resp.status = 200
  /\ resp.result.detected
  /\ tracked_object = Null

\* C8: the model is called only with model_lock held, by the one request being
\* handled; every other request that arrived is still waiting to be accepted.
C8_OneInferenceAtATime ==
  InInference => model_lock = "held" /\ cur.path \in ImagePaths

\* C8 witness: one request is inside the model call, another one that needs
\* inference has arrived and waits
C8_Witness ==
  /\ pc = "infer"
  /\ pending # <<>>
  /\ Head(pending).path \in ImagePaths

\* C9: in every /track/auto response the mode is "object" exactly when
\* 'tracking' is a non-null name, and the Object policy was run on that name.
C9_AtomicSnapshot ==
  (Answered("/track/auto") /\ resp.status = 200)
  => /\ resp.mode = "object" <=> resp.tracking # Null
     /\ resp.mode = "object" => resp.policy_name = resp.tracking

\* C10: while an inference is in progress, a /track/set, /track/clear or
\* GET /health request that has arrived can be handled at once.
C10_StateRequestsDoNotWait ==
  (InInference /\ pending # <<>>
   /\ Head(pending).path \in {"/track/set", "/track/clear", "/health"})
  => ENABLED Accept

\* C11: a /track/clear request sent with an empty body is answered
\* {success: true, tracking: null} and leaves no target stored.
C11_ClearTakesNoBody ==
  (pc = "idle" /\ cur.path = "/track/clear" /\ body_kind = "empty")
  => /\ resp.status = 200 /\ resp.success /\ resp.tracking = Null
     /\ tracked_object = Null

\* C12: a /track/set request whose JSON object has no 'object' field, or has it
\* null or empty, is answered with a 400 error and not with success, and leaves
\* the stored target as it was.
C12_SetWithoutObjectRejected ==
  [][ (pc = "route" /\ pc' = "idle" /\ cur.path = "/track/set"
       /\ data.kind = "object" /\ data.object \in {Null, JStr(<<>>)})
      => /\ resp'.status = 400 /\ resp'.error # "" /\ ~resp'.success
         /\ tracked_object' = tracked_object ]_vars

\* the 'image' values that are missing, empty or no image: everything but a
\* base64 payload of an image, bare or behind a data-URL prefix
BadImages == {Null, JStr(<<>>), JStr(<<"!">>), JNum(5)}

\* C13: on every image endpoint the step that reads a malformed (or empty) body,
\* and the step that routes a JSON object whose 'image' is missing or does not
\* decode, ends the handler with a 400 {error} response; the handler never
\* reaches the detector and the stored target is as before.
C13_BadImageRequestRejected ==
  [][ (/\ cur.path \in ImagePaths
       /\ \/ pc = "handle" /\ body_kind' \in {"empty", "invalid"}
          \/ /\ pc = "route" /\ pc' # pc
             /\ data.kind = "object" /\ data.image \in BadImages)
      => /\ pc' = "idle"
         /\ resp'.status = 400 /\ resp'.error # "" /\ ~resp'.success
         /\ tracked_object' = tracked_object
         /\ model_lock' = model_lock /\ model' = model ]_vars

\* C13 witness: an image endpoint has answered 400 "Failed to decode image" to a
\* JSON object while the imports had succeeded and a target was stored
C13_Witness ==
  /\ pc = "idle"
  /\ cur.path \in ImagePaths
  /\ body_kind = "object"
  /\ YOLO_AVAILABLE
  /\ resp.status = 400
  /\ resp.error = "Failed to decode image"
  /\ tracked_object = JStr(CUP)

\* C14: every request that has been handled got one structured response: a
\* success body or an error with status 400, 404 or 500.
C14_EveryRequestAnswered ==
  (pc = "idle" /\ cur # NoReq)
  => \/ resp.status = 200 /\ resp.error = ""
     \/ resp.status \in {400, 404, 500} /\ resp.error # ""

\* C15: a request to a path that is no endpoint, whose handler did not raise, is
\* answered 404 with an error body, and the stored target and the model are as
\* they were when it was accepted.
C15_UnknownPathNotFound ==
  (pc = "idle" /\ cur.path = "/nope" /\ resp.status # 0)
  => /\ resp.status = 404 /\ resp.error # ""
     /\ tracked_object = before

\* the endpoints that resolve a target
TrackPaths == {"/track/face", "/track/object", "/track/auto"}

\* the step of a tracking handler that writes the response to a request with a
\* decodable image and a target that is a name (or none, for the Face policy)
TrackingAnswer ==
  /\ cur.path \in TrackPaths
  /\ pc' = "idle"
  /\ \/ /\ pc = "route"
        /\ data.kind = "object" /\ data.image \notin BadImages
        /\ cur.path = "/track/object"
             => \/ IsName(data.object)
                \/ data.object \in {Null, JStr(<<>>)} /\ IsName(tracked_object)
     \/ /\ pc = "resolve"
        /\ cur.path = "/track/object" => IsName(object_name)
        /\ cur.path = "/track/auto" => tracked_object.t \in {"null", "str"}

\* C16: a tracking request with a decodable image is answered 500 {error} when
\* the imports failed, the model could not be loaded or the inference raised,
\* and otherwise 200 {success: true} with a result, which is detected: false
\* when no detection matches the target.
C16_MissIsNotFailure ==
  [][ TrackingAnswer
      => IF ~YOLO_AVAILABLE \/ detections.err # ""
         THEN resp'.status = 500 /\ resp'.error # "" /\ ~resp'.success
         ELSE /\ resp'.status = 200 /\ resp'.success /\ ~resp'.result.none
              /\ detections.list = <<>> => ~resp'.result.detected ]_vars

\* C17: the step of the /track/face handler that writes the response after a
\* successful inference answers with the Face policy's result on the
\* detections, whatever target is stored, and leaves the stored target alone.
C17_FaceIgnoresState ==
  [][ (pc = "resolve" /\ pc' = "idle" /\ cur.path = "/track/face"
       /\ detections.err = "")
      => /\ resp'.status = 200 /\ resp'.success
         /\ resp'.policy = "face"
         /\ resp'.result = OrNotDetected(find_face(detections.list))
         /\ tracked_object' = tracked_object ]_vars

\* C17 witness: /track/face has found a person while "cup" was the stored target
C17_Witness ==
  /\ Answered("/track/face")
  /\ resp.policy = "face"
  /\ resp.result.detected
  /\ tracked_object = JStr(CUP)

\* C18: for 'object' values and stored targets that are strings or null, the
\* /track/object handler rejects the request with 400 when neither is a name;
\* otherwise (given a decodable image) it goes on with the supplied name when
\* there is one and else with the stored one, and after a successful inference
\* answers with that name as 'tracking' and the Object policy's result for it.
\* No step of the handler changes the stored target.
C18_ObjectUsesSuppliedOrStored ==
  [][ (cur.path = "/track/object" /\ pc \in {"route", "resolve"} /\ pc' # pc)
      => /\ tracked_object' = tracked_object
         /\ (/\ pc = "route" /\ data.kind = "object" /\ Truthy(data.image)
             /\ data.object.t \in {"null", "str"}
             /\ tracked_object.t \in {"null", "str"})
            => IF ~IsName(data.object) /\ ~IsName(tracked_object)
               THEN pc' = "idle" /\ resp'.status = 400 /\ resp'.error # ""
               ELSE (YOLO_AVAILABLE /\ data.image \notin BadImages)
                    => /\ pc' = "detect"
                       /\ object_name' = IF IsName(data.object) THEN data.object
                                                                 ELSE tracked_object
         /\ (pc = "resolve" /\ detections.err = "" /\ object_name.t = "str")
            => /\ resp'.status = 200 /\ resp'.success
               /\ resp'.tracking = object_name
               /\ resp'.policy = "object" /\ resp'.policy_name = object_name
               /\ resp'.result =
                    OrNotDetected(find_tracked_object(detections.list, object_name.s)) ]_vars

\* C18 witness: /track/object given "cup" has found the cup and answered
\* tracking "cup" while "Phone" was and stays the stored target
C18_Witness ==
  /\ Answered("/track/object")
  /\ resp.tracking = JStr(CUP)
  /\ resp.policy_name = JStr(CUP)
  /\ resp.result.detected
  /\ before = JStr(PHONE_MIXED)
  /\ tracked_object = JStr(PHONE_MIXED)

\* C18 second witness: /track/object was rejected for want of a name
C18_WitnessRejected ==
  /\ Answered("/track/object")
  /\ resp.status = 400
  /\ resp.error = "No object specified to track"

\* the positions of the 'person' detections in a list
Persons(list) == { i \in 1..Len(list) : list[i].class = PERSON }

\* position i holds a person no person exceeds in area and no earlier person
\* equals in area
FirstLargestPerson(list, i) ==
  /\ i \in Persons(list)
  /\ \A j \in Persons(list) : list[j].area <= list[i].area
  /\ \A j \in Persons(list) : j < i => list[j].area < list[i].area

\* C19: find_face returns None exactly when the list holds no person; otherwise
\* its result is detected and carries the position and confidence of the first
\* person in list order among the persons of maximal area.
C19_FaceSelectsFirstLargestPerson ==
  pc = "face"
  => LET list == detections.list
     IN  /\ resp.result.none <=> Persons(list) = {}
         /\ resp.result.detected <=> Persons(list) # {}
         /\ Persons(list) # {}
            => \E i \in 1..Len(list) :
                 /\ FirstLargestPerson(list, i)
                 /\ resp.result.x = list[i].x
                 /\ resp.result.y = list[i].y
                 /\ resp.result.confidence = list[i].confidence

\* C19 witness: a larger cup comes first, then two persons of equal area at
\* different positions; the first of the two persons was selected
C19_Witness ==
  /\ pc = "face"
  /\ Len(detections.list) = 3
  /\ detections.list[1].class # PERSON
  /\ detections.list[1].area > detections.list[2].area
  /\ detections.list[2].class = PERSON
  /\ detections.list[3].class = PERSON
  /\ detections.list[2].area = detections.list[3].area
  /\ detections.list[2].x # detections.list[3].x
  /\ resp.result.detected
  /\ resp.result.x = detections.list[2].x

\* the largest area among the persons of a list that has one
LargestPersonArea(list) ==
  CHOOSE a \in { list[i].area : i \in Persons(list) } :
    \A j \in Persons(list) : list[j].area <= a

\* C20: the distance band find_face reports is "close" for a selected area
\* above 0.15, "medium" for an area above 0.05 and up to 0.15, "far" up to 0.05
\* (areas in units of 0.0001).
C20_DistanceBands ==
  (pc = "face" /\ Persons(detections.list) # {})
  => LET area == LargestPersonArea(detections.list)
     IN  resp.result.distance = IF area > 1500 THEN "close"
                                ELSE IF area > 500 THEN "medium"
                                ELSE "far"

\* C20 witness: the selected person's area is exactly 0.15 and the band is
\* "medium"
C20_Witness ==
  /\ pc = "face"
  /\ Persons(detections.list) # {}
  /\ LargestPersonArea(detections.list) = 1500
  /\ resp.result.distance = "medium"

\* C20 second witness: the selected person's area is exactly 0.05 and the band
\* is "far"
C20_WitnessFar ==
  /\ pc = "face"
  /\ Persons(detections.list) # {}
  /\ LargestPersonArea(detections.list) = 500
  /\ resp.result.distance = "far"

\* the members of a list of strings
Members(lst) == { lst[i] : i \in 1..Len(lst) }

\* detection d is a match for the search names found in the state: its
\* lowercased label is one of them, or the first of them (the normalized term)
\* is part of the label
IsMatch(d) ==
  \/ Lower(d.class) \in Members(search_names)
  \/ IsSubstring(search_names[1], Lower(d.class))

MatchPositions(list) == { i \in 1..Len(list) : IsMatch(list[i]) }

\* C21: find_tracked_object returns None exactly when no detection of the list
\* has a lowercased label among the search names or containing the normalized
\* term, and a detection it returns is one of those.
C21_ObjectMatchRule ==
  pc = "object"
  => LET list == detections.list
     IN  /\ resp.result.none <=> MatchPositions(list) = {}
         /\ resp.result.detected <=> MatchPositions(list) # {}
         /\ resp.result.detected
            => \E i \in MatchPositions(list) :
                 /\ resp.result.class = list[i].class
                 /\ resp.result.x = list[i].x
                 /\ resp.result.confidence = list[i].confidence

\* C21 witness: asked for "dog", a lone hot dog was returned (a match by
\* substring only)
C21_Witness ==
  /\ pc = "object"
  /\ object_name = JStr(DOG)
  /\ Len(detections.list) = 1
  /\ detections.list[1].class = ClassName(52)
  /\ resp.result.detected

\* C21 second witness: asked for "bike", a lone dog was not returned
C21_WitnessMiss ==
  /\ pc = "object"
  /\ object_name = JStr(BIKE)
  /\ Len(detections.list) = 1
  /\ detections.list[1].class = ClassName(16)
  /\ resp.result.none

\* C22: the detection find_tracked_object returns is a match whose
\* area * confidence no match exceeds, whether it matched by label or by
\* substring.
C22_ObjectSelectsBestScore ==
  (pc = "object" /\ resp.result.detected)
  => LET list == detections.list
     IN  \E i \in MatchPositions(list) :
           /\ \A j \in MatchPositions(list) :
                 list[j].area * list[j].confidence <= list[i].area * list[i].confidence
           /\ resp.result.class = list[i].class
           /\ resp.result.x = list[i].x
           /\ resp.result.y = list[i].y
           /\ resp.result.confidence = list[i].confidence

\* C22 witness: asked for "dog", a dog of area 0.3 and confidence 0.2 comes
\* first and a hot dog of area 0.1 and confidence 0.9 second; the hot dog was
\* returned
C22_Witness ==
  /\ pc = "object"
  /\ object_name = JStr(DOG)
  /\ Len(detections.list) = 2
  /\ detections.list[1].class = DOG
  /\ detections.list[1].area = 3000 /\ detections.list[1].confidence = 200
  /\ detections.list[2].class = ClassName(52)
  /\ detections.list[2].area = 1000 /\ detections.list[2].confidence = 900
  /\ resp.result.class = ClassName(52)

\* a string without upper-case letters and without white space at its ends
IsNormal(s) ==
  /\ \A i \in 1..Len(s) : s[i] \notin DOMAIN UpperToLower
  /\ s # <<>> => s[1] \notin Whitespace /\ s[Len(s)] \notin Whitespace

\* C23: the first search name is the name lowercased and trimmed; when it is a
\* key of the alias table the labels mapped to it follow and nothing else,
\* otherwise it stands alone.  "phone" leads to "cell phone", "bike" to
\* "bicycle" and "motorcycle", and "widget" to itself alone, which neither is
\* nor is part of any class of the vocabulary.
C23_AliasResolution ==
  pc = "object"
  => LET term == search_names[1]
         rest == SubSeq(search_names, 2, Len(search_names))
     IN  /\ IsNormal(term)
         /\ object_name.s \in {PHONE, BIKE, WIDGET, DOG} => term = object_name.s
         /\ object_name.s = BIKE_PADDED => term = BIKE
         /\ object_name.s = BLANK => term = <<>>
         /\ (\E k \in 1..Len(aliases) : aliases[k][1] = term)
            => \E k \in 1..Len(aliases) : aliases[k][1] = term /\ rest = aliases[k][2]
         /\ (\A k \in 1..Len(aliases) : aliases[k][1] # term) => rest = <<>>
         /\ term = PHONE => ClassName(67) \in Members(search_names)
         /\ term = BIKE => {BIKE, ClassName(1), ClassName(3)} \subseteq Members(search_names)
         /\ term = WIDGET
            => /\ Members(search_names) = {WIDGET}
               /\ \A c \in 1..Len(COCO_CLASSES) :
                    /\ COCO_CLASSES[c] \notin Members(search_names)
                    /\ ~IsSubstring(WIDGET, COCO_CLASSES[c])

\* C23 witness: " Bike " has been resolved to "bike", "bicycle", "motorcycle"
C23_Witness ==
  /\ pc = "object"
  /\ object_name = JStr(BIKE_PADDED)
  /\ search_names = <<BIKE, ClassName(1), ClassName(3)>>

\* C23 second witness: "widget" has been resolved to itself alone
C23_WitnessUnknown ==
  /\ pc = "object"
  /\ object_name = JStr(WIDGET)
  /\ search_names = <<WIDGET>>

\* C30: for a name that is not empty but consists of white space only (so is
\* empty once normalized), and a list that is not empty, find_tracked_object returns detected with a detection
\* whose area * confidence no detection of the list exceeds, of whatever class.
C30_BlankNameMatchesAll ==
  (pc = "object" /\ object_name.s # <<>>
   /\ (\A k \in 1..Len(object_name.s) : object_name.s[k] \in Whitespace)
   /\ detections.list # <<>>)
  => LET list == detections.list
     IN  /\ resp.result.detected
         /\ \E i \in 1..Len(list) :
              /\ \A j \in 1..Len(list) :
                    list[j].area * list[j].confidence <= list[i].area * list[i].confidence
              /\ resp.result.class = list[i].class
              /\ resp.result.x = list[i].x
              /\ resp.result.confidence = list[i].confidence

\* C30 witness: asked for " ", a dog and a motorcycle in the list, the
\* motorcycle with the greater score was returned
C30_Witness ==
  /\ pc = "object"
  /\ object_name = JStr(BLANK)
  /\ Len(detections.list) = 2
  /\ detections.list[1].class = DOG
  /\ detections.list[1].confidence = 200
  /\ detections.list[2].class = ClassName(3)
  /\ detections.list[2].confidence = 900
  /\ resp.result.class = ClassName(3)

\* C24: the /detect handler, after an inference that succeeded, answers
\* {success: true} with 'count' the length of the detections list it returns;
\* for an empty list that is success with count 0.
C24_DetectCountsDetections ==
  [][ (pc = "resolve" /\ pc' = "idle" /\ cur.path = "/detect" /\ detections.err = "")
      => /\ resp'.status = 200 /\ resp'.success /\ resp'.error = ""
         /\ resp'.count = Len(detections.list)
         /\ detections.list = <<>> => resp'.count = 0 ]_vars

\* C24 witness: /detect has answered success with count 0
C24_Witness ==
  /\ Answered("/detect")
  /\ resp.status = 200
  /\ resp.success
  /\ resp.count = 0

\* C25: a request that reaches detect_objects while no model is loaded calls
\* load_model, which tries to construct the model; when that fails the request
\* is answered 500 and the server takes the next request, when it succeeds the
\* request goes on to the inference.  An inference that raised is followed by
\* the 500 response, not by another inference.
C25_LazyLoadRetry ==
  [][ pc' # pc
      => /\ (pc = "detect" /\ model = "None") => pc' = "load"
         /\ (pc = "load" /\ started) => pc' = "load_locked"
         /\ (pc = "load_locked" /\ started /\ model = "None")
            => \/ model' # "None" /\ pc' = "load_ok"
               \/ model' = "None" /\ pc' = "load_raised"
         /\ (pc = "load_ok" /\ started) => pc' = "infer_acquire"
         /\ (pc = "load_raised" /\ started)
            => pc' = "resolve" /\ detections'.err # ""
         /\ (pc = "infer_exit" /\ detections.err # "")
            => pc' = "resolve" /\ detections' = detections
         /\ (pc = "resolve" /\ detections.err # "")
            => /\ pc' = "idle"
               /\ resp'.status = 500 /\ resp'.error = detections.err ]_vars

\* C25 witness: a request found no model loaded, its load attempt failed and
\* it has been answered 500; the server is idle again
C25_Witness ==
  /\ pc = "idle"
  /\ cur.path \in ImagePaths
  /\ model = "None"
  /\ resp.status = 500
  /\ resp.error = "YOLO model not available"

\* C25 second witness: the load attempt of a request has succeeded after the
\* attempt at startup had failed
C25_WitnessRecovered ==
  /\ pc = "load_ok"
  /\ started
  /\ model = "YOLO"
  /\ cur.path = "/track/auto"

\* C26: once the load at startup has failed (the packages are there, the
\* server has started, no model is loaded), a request that reaches
\* detect_objects is answered with the detector-unavailable error without a new
\* call of load_model.
C26_StartupFailureCached ==
  [][ (pc = "detect" /\ pc' # pc /\ started /\ YOLO_AVAILABLE /\ model = "None")
      => pc' = "resolve" /\ detections'.err # "" ]_vars

\* C27: a loaded model is never replaced or dropped, the model changes only
\* inside load_model's with block, and YOLO(MODEL_PATH) returns a model at most
\* once in the life of the process.
C27_SingleModelInstance ==
  [][ /\ model # "None" => model' = model
      /\ model' # model => pc = "load_locked" /\ model_lock = "held"
      /\ constructions' <= 1 ]_vars

\* C27 witness: load_model was called at startup and again by a request; the
\* second call has constructed the one model
C27_Witness ==
  /\ pc = "load_ok"
  /\ started
  /\ model_lock = "held"
  /\ constructions = 1

\* C28: whenever the server thread is outside load_model's and detect_objects'
\* with blocks, model_lock is free.
C28_LockReleased ==
  pc \notin {"load_locked", "load_ok", "load_raised", "infer", "infer_exit"}
  => model_lock = "free"

\* C28 witness: the model call has raised, the with block has been left and
\* the lock is free
C28_Witness ==
  /\ pc = "resolve"
  /\ detections.err = "inference failed"
  /\ model_lock = "free"

\* C28 second witness: loading has raised at startup and the lock is free
C28_WitnessLoad ==
  /\ pc = "idle"
  /\ started
  /\ YOLO_AVAILABLE
  /\ model = "None"
  /\ cur = NoReq
  /\ model_lock = "free"

\* C29: with no target stored, the 'face' that /track/face returns for the
\* results of an inference equals the 'position' that /track/auto returns for
\* the same results.
C29_AutoFaceAgreesWithTrackFace ==
  [][ (pc = "auto" /\ pc' = "track_face")
      => /\ resp.mode = "face"
         /\ resp'.result = resp.result ]_vars

\* C29 witness: the results hold a cup larger than the person behind it;
\* /track/face, whose detections are the person alone, has returned the person
C29_Witness ==
  /\ pc = "track_face"
  /\ Len(results) = 2
  /\ results[1].cls = 41 /\ results[1].area > results[2].area
  /\ results[2].cls = 0
  /\ Len(detections.list) = 1
  /\ resp.result.detected
  /\ resp.result.x = results[2].x

\* C29 second witness: no person in the results, /track/face has returned
\* not-detected
C29_WitnessNone ==
  /\ pc = "track_face"
  /\ Len(results) = 1
  /\ results[1].cls = 41
  /\ resp.result = NotDetected
====
